---- MODULE Spec2Model ----
(***************************************************************************)
(* Pomodash store layer: the Vuex actions (src/src/store/actions.ts) and   *)
(* mutations (src/unnamed/part_001) over the Dexie database.               *)
(*                                                                         *)
(* db    is the IndexedDB database (tables tasks, tags, taskTagMap, logs,  *)
(*       settings), state is the Vuex store.  An action of the module is   *)
(* one dispatched store action run to completion, with every nested        *)
(* dispatch and commit it makes.                                           *)
(*                                                                         *)
(* A Dexie call such as dexieDb.logs.put(log) starts its write when it is  *)
(* called.  In handleDexieError(dexieDb.logs.put(log), ...) the argument   *)
(* is evaluated before handleDexieError runs, so the write is issued       *)
(* whatever storageEnabled is; handleDexieError only decides whether the   *)
(* caller sees the promise resolve or reject.                              *)
(*                                                                         *)
(* The Call_ and Resume_ actions run an action from one await to the next, *)
(* so that two dispatched actions interleave at their awaits; calls holds  *)
(* the actions in flight, served in the order their requests were issued.  *)
(***************************************************************************)
EXTENDS Integers, Sequences, FiniteSets, Bags, TLC

VARIABLES db, state, storageEnabled, now, nano, budget, last, calls

vars == <<db, state, storageEnabled, now, nano, budget, last, calls>>

-----------------------------------------------------------------------------
(* Bounds *)

\* tasks ever created (nanoid never repeats an id)
MaxTasks == 2
\* tags ever created
MaxTags == 2
\* logs ever created
MaxLogs == 2
\* rows held by the taskTagMap table at one time
MaxRows == 2
\* entries of settings.selectedTagIds
MaxFilter == 2
\* largest value of the clock Date.now()
MaxTime == 3
\* events of one session, in the specifications that bound them
MaxSteps == 6
\* events of one session in Spec, where every action may be dispatched
MaxStepsAll == 5
\* dispatched actions that are waiting at an await at the same time
MaxCalls == 2
\* tasks ever created in SpecReorder, where a list is reordered
MaxReorderTasks == 3

-----------------------------------------------------------------------------
(* Values *)

\* null / undefined of an id, a timestamp or a duration
NULL == -1

\* JavaScript truthiness of a number-or-null
Truthy(x) == x # NULL /\ x # 0

TaskIds == 1..MaxTasks
TagIds == 1..MaxTags
LogIds == 1..MaxLogs

\* strings are sequences of characters
Blank == " "
EmptyString == <<>>

RECURSIVE trimStart(_)
trimStart(s) == IF s # <<>> /\ Head(s) = Blank THEN trimStart(Tail(s)) ELSE s

RECURSIVE trimEnd(_)
trimEnd(s) ==
  IF s # <<>> /\ s[Len(s)] = Blank THEN trimEnd(SubSeq(s, 1, Len(s) - 1)) ELSE s

\* String.prototype.trim
trim(s) == trimEnd(trimStart(s))

\* the names a user types for a new task, and for a task that is renamed
TaskNameInputs == {<<>>, <<" ">>, <<" ", "a">>}
RenameInputs == {<<"b">>}
\* the notes a user types
NotesInputs == {<<"n">>}
\* the names a user types for a tag
TagNameInputs == {<<>>, <<"a">>, <<" ", "a">>, <<"b">>}
\* the intervals a user enters by hand
IntervalInputs ==
  {[started |-> 1, timeSpent |-> 1, stopped |-> 2],
   [started |-> 2, timeSpent |-> 1, stopped |-> 3]}
\* the colours ColorManager.getRandomColor may return, and the colour a user
\* picks for a tag
Colors == {"c1"}
PickedColors == {"c2"}

-----------------------------------------------------------------------------
(* Tables and objects as functions *)

\* Table.add / Table.put / obj[k] = v
Put(f, k, v) == [x \in (DOMAIN f) \cup {k} |-> IF x = k THEN v ELSE f[x]]

\* Collection.delete / delete obj[k]
Del(f, S) == [x \in (DOMAIN f) \ S |-> f[x]]

Empty == [x \in {} |-> NULL]

\* Array.prototype.filter
RECURSIVE SeqFilter(_, _)
SeqFilter(q, keep) ==
  IF q = <<>> THEN <<>>
  ELSE IF Head(q) \in keep THEN <<Head(q)>> \o SeqFilter(Tail(q), keep)
       ELSE SeqFilter(Tail(q), keep)

SeqRange(q) == {q[i] : i \in 1..Len(q)}

\* number of occurrences of x in the list q
Count(q, x) == Cardinality({i \in 1..Len(q) : q[i] = x})

\* the arrays toArray() may return for the rows with keys S read through an
\* index whose value for row x is key[x]: ascending in the index value, rows
\* that tie in primary-key order, which is the order of random nanoid strings
Sorted(S, key) ==
  {q \in [1..Cardinality(S) -> S] :
     \A i, j \in 1..Cardinality(S) : i < j => q[i] # q[j] /\ key[q[i]] <= key[q[j]]}

\* the lists that hold exactly the elements of the bag B
ListsOf(B) ==
  {q \in [1..BagCardinality(B) -> BagToSet(B)] :
     \A x \in BagToSet(B) : Count(q, x) = CopiesIn(x, B)}

-----------------------------------------------------------------------------
(* The store *)

\* the settings kept in the store, with their defaults
initialSettings ==
  [selectedTaskID |-> NULL, selectedTagIds |-> <<>>, addSelectedTags |-> TRUE]

SettingKeys == {"selectedTaskID", "selectedTagIds", "addSelectedTags"}

initialTempState == [running |-> FALSE, activeTaskID |-> NULL]

\* the store as created, before loadInitialData
initialState ==
  [tasks |-> Empty, taskKeys |-> <<>>, tags |-> Empty, tagOrder |-> <<>>,
   taskTagsMap |-> Empty, settings |-> initialSettings,
   selectedTaskLogs |-> <<>>, tempState |-> initialTempState]

\* Object.values(state.tasks): the tasks in the insertion order of their keys
TaskValues(s) == s.taskKeys

\* obj[k] = v on the object with key order keys: a new key goes last
KeyPut(keys, k) == IF k \in SeqRange(keys) THEN keys ELSE Append(keys, k)

\* the index of the log with this id in the list, 0 when it is not there
LogIndex(list, logId) ==
  IF \E i \in 1..Len(list) : list[i].id = logId
  THEN CHOOSE i \in 1..Len(list) :
         list[i].id = logId /\ \A j \in 1..(i - 1) : list[j].id # logId
  ELSE 0

\* the for loop of mutations.loadInitialData over taskTagMaps: a row whose
\* task has no list makes push throw, and the rows before it stay pushed
RECURSIVE pushRows(_, _)
pushRows(m, rows) ==
  IF rows = <<>> THEN [map |-> m, thrown |-> FALSE]
  ELSE IF Head(rows).taskId \notin DOMAIN m THEN [map |-> m, thrown |-> TRUE]
  ELSE pushRows([m EXCEPT ![Head(rows).taskId] = Append(@, Head(rows).tagId)],
                Tail(rows))

\* state.settings after the loop over the keys of initialState.settings
LoadedSettings(rows) ==
  [k \in SettingKeys |-> IF rows[k] # <<>> THEN rows[k][1] ELSE initialSettings[k]]

\* tasks and tags are the arrays read with orderBy('order'), taskById and
\* tagById their rows; returns the store and whether the mutation threw
mutations_loadInitialData(s, taskArr, taskById, tagArr, tagById, taskTagMaps, settings, selectedTaskLogs) ==
  LET pushed == pushRows([t \in SeqRange(taskArr) |-> <<>>], taskTagMaps)
      s1 == [s EXCEPT !.tasks = [t \in SeqRange(taskArr) |-> taskById[t]],
                      !.taskKeys = taskArr,
                      !.tags = [g \in SeqRange(tagArr) |-> tagById[g]],
                      !.tagOrder = tagArr,
                      !.taskTagsMap = pushed.map]
  IN IF pushed.thrown THEN [state |-> s1, thrown |-> TRUE]
     ELSE [state |-> [s1 EXCEPT !.settings = LoadedSettings(settings),
                                !.selectedTaskLogs = selectedTaskLogs],
           thrown |-> FALSE]

mutations_addTask(s, taskId, task, tagIds) ==
  [s EXCEPT !.tasks = Put(@, taskId, task),
            !.taskKeys = KeyPut(@, taskId),
            !.taskTagsMap = Put(@, taskId, tagIds)]

\* updateTask as it would be without the Object.assign on the task
mutations_updateTask_unassigned(s, taskId, fields, values) ==
  [s EXCEPT !.taskKeys = KeyPut(@, taskId)]

\* taskUpdates is the set of updated fields with the record holding their values
mutations_updateTask(s, taskId, fields, values) ==
  [s EXCEPT !.tasks = Put(@, taskId,
       [f \in DOMAIN s.tasks[taskId] |->
          IF f \in fields THEN values[f] ELSE s.tasks[taskId][f]]),
            !.taskKeys = KeyPut(@, taskId)]

\* tasks is the array of task ids, taskById their objects
mutations_setTasks(s, taskArr, taskById) ==
  [s EXCEPT !.tasks = [t \in SeqRange(taskArr) |-> taskById[t]],
            !.taskKeys = taskArr]

\* tasksToUpdate are whole rows read from the database
RECURSIVE mutations_updateTasks(_, _, _)
mutations_updateTasks(s, taskArr, taskById) ==
  IF taskArr = <<>> THEN s
  ELSE mutations_updateTasks(
         [s EXCEPT !.tasks = Put(@, Head(taskArr), taskById[Head(taskArr)]),
                   !.taskKeys = KeyPut(@, Head(taskArr))],
         Tail(taskArr), taskById)

mutations_deleteTasks(s, taskIds) ==
  [s EXCEPT !.tasks = Del(@, taskIds),
            !.taskKeys = SeqFilter(@, SeqRange(@) \ taskIds),
            !.taskTagsMap = Del(@, taskIds)]

mutations_startTask(s, log) ==
  IF log.taskId \in DOMAIN s.tasks
  THEN [s EXCEPT !.tempState = [running |-> TRUE, activeTaskID |-> log.taskId],
                 !.selectedTaskLogs = Append(@, log)]
  ELSE s

mutations_updateLog(s, taskId, log) ==
  IF taskId # s.settings.selectedTaskID THEN s
  ELSE LET logIndex == LogIndex(s.selectedTaskLogs, log.id)
       IN IF logIndex > 0
          THEN [s EXCEPT !.selectedTaskLogs[logIndex] = log,
                         !.tempState =
                            IF log.stopped = NULL
                            THEN [@ EXCEPT !.running = TRUE]
                            ELSE [running |-> FALSE, activeTaskID |-> NULL]]
          ELSE [s EXCEPT !.selectedTaskLogs = Append(@, log)]

mutations_deleteInterval(s, taskId, logId) ==
  IF taskId # s.settings.selectedTaskID THEN s
  ELSE LET logIndex == LogIndex(s.selectedTaskLogs, logId)
       IN IF logIndex = 0 THEN s
          ELSE [s EXCEPT !.selectedTaskLogs =
                  SubSeq(@, 1, logIndex - 1) \o SubSeq(@, logIndex + 1, Len(@))]

mutations_setSelectedTaskLogs(s, selectedTaskLogs) ==
  [s EXCEPT !.selectedTaskLogs = selectedTaskLogs]

\* returns the store and whether push threw on a task without a list
mutations_addTaskTag(s, taskId, tagId, tag, isNewTag) ==
  LET s1 == IF isNewTag
            THEN [s EXCEPT !.tags = Put(@, tagId, tag),
                           !.tagOrder = Append(@, tagId)]
            ELSE s
  IN IF taskId \notin DOMAIN s.taskTagsMap THEN [state |-> s1, thrown |-> TRUE]
     ELSE [state |-> [s1 EXCEPT !.taskTagsMap[taskId] = Append(@, tagId)],
           thrown |-> FALSE]

\* reorderedTags is the array of tag ids, tagById their objects
mutations_updateTagOrder(s, reorderedTags, tagById) ==
  [s EXCEPT !.tags = [g \in (DOMAIN s.tags) \cup SeqRange(reorderedTags) |->
                        IF g \in SeqRange(reorderedTags) THEN tagById[g] ELSE s.tags[g]],
            !.tagOrder = reorderedTags]

\* { ...state.tags[tagId], ...tagUpdates }: of a tag the store does not hold,
\* the object has only the updated fields
mutations_updateTag(s, tagId, fields, values) ==
  [s EXCEPT !.tags = Put(@, tagId,
       IF tagId \in DOMAIN s.tags
       THEN [f \in DOMAIN s.tags[tagId] |->
               IF f \in fields THEN values[f] ELSE s.tags[tagId][f]]
       ELSE [f \in fields |-> values[f]])]

\* deleteTaskTag as it would be if it kept the list of the task
mutations_deleteTaskTag_kept(s, taskId, newTagIds) ==
  s

mutations_deleteTaskTag(s, taskId, newTagIds) ==
  [s EXCEPT !.taskTagsMap = Put(@, taskId, newTagIds)]

\* deleteTag as it would be without the filter on settings.selectedTagIds
mutations_deleteTag_keepsFilter(s, tagId) ==
  IF \E t \in DOMAIN s.tasks : t \notin DOMAIN s.taskTagsMap
  THEN [state |-> s, thrown |-> TRUE]
  ELSE [state |->
          [s EXCEPT !.taskTagsMap =
                      [t \in DOMAIN s.taskTagsMap |->
                         IF t \in DOMAIN s.tasks
                         THEN SeqFilter(s.taskTagsMap[t], SeqRange(s.taskTagsMap[t]) \ {tagId})
                         ELSE s.taskTagsMap[t]],
                    !.tags = Del(@, {tagId}),
                    !.tagOrder = SeqFilter(@, SeqRange(@) \ {tagId})],
        thrown |-> FALSE]

\* returns the store and whether filter threw on a task without a list
mutations_deleteTag(s, tagId) ==
  IF \E t \in DOMAIN s.tasks : t \notin DOMAIN s.taskTagsMap
  THEN [state |-> s, thrown |-> TRUE]
  ELSE [state |->
          [s EXCEPT !.taskTagsMap =
                      [t \in DOMAIN s.taskTagsMap |->
                         IF t \in DOMAIN s.tasks
                         THEN SeqFilter(s.taskTagsMap[t], SeqRange(s.taskTagsMap[t]) \ {tagId})
                         ELSE s.taskTagsMap[t]],
                    !.settings.selectedTagIds = SeqFilter(@, SeqRange(@) \ {tagId}),
                    !.tags = Del(@, {tagId}),
                    !.tagOrder = SeqFilter(@, SeqRange(@) \ {tagId})],
        thrown |-> FALSE]

mutations_updateSetting(s, key, value) ==
  [s EXCEPT !.settings[key] = value]

\* getters.archivedTasks: the tasks of the store that are archived
archivedTasks(s) == {t \in DOMAIN s.tasks : s.tasks[t].archived = "true"}

\* whether the task passes the tag filter of the task lists
PassesTagFilter(s, t) ==
  \/ s.settings.selectedTagIds = <<>>
  \/ /\ t \in DOMAIN s.taskTagsMap
     /\ SeqRange(s.settings.selectedTagIds) \cap SeqRange(s.taskTagsMap[t]) # {}

\* getters.completedTasksFiltered: the completed tasks of the filtered list
completedTasksFiltered(s) ==
  {t \in DOMAIN s.tasks : Truthy(s.tasks[t].completed) /\ PassesTagFilter(s, t)}

-----------------------------------------------------------------------------
(* The database *)

\* a settings row is <<value>>, a missing row <<>>
emptyDb ==
  [tasks |-> Empty, tags |-> Empty, taskTagMap |-> EmptyBag, logs |-> Empty,
   settings |-> [k \in SettingKeys |-> <<>>]]

\* Table.update(key, changes): changes the row when there is one
TableUpdate(table, key, fields, values) ==
  IF key \in DOMAIN table
  THEN [table EXCEPT ![key] =
          [f \in DOMAIN table[key] |-> IF f \in fields THEN values[f] ELSE table[key][f]]]
  ELSE table

\* the rows of taskTagMap kept by a delete of the rows in gone
RowsWithout(rows, gone) == [r \in (DOMAIN rows) \ gone |-> rows[r]]

TaskTagRow(taskId, tagId) == [taskId |-> taskId, tagId |-> tagId]

\* taskTagMap.where('taskId').equals(taskId): the bag of the task's tag ids
TagBagOf(rows, taskId) ==
  LET mine == {r \in DOMAIN rows : r.taskId = taskId}
  IN [g \in {r.tagId : r \in mine} |-> rows[TaskTagRow(taskId, g)]]

\* taskTagMap.bulkAdd of one row per tag id of the list
RECURSIVE BulkAddRows(_, _, _)
BulkAddRows(rows, taskId, tagIds) ==
  IF tagIds = <<>> THEN rows
  ELSE BulkAddRows(rows (+) SetToBag({TaskTagRow(taskId, Head(tagIds))}),
                   taskId, Tail(tagIds))

\* a log row as the object the store holds
LogObject(logs, l) ==
  [id |-> l, taskId |-> logs[l].taskId, started |-> logs[l].started,
   stopped |-> logs[l].stopped, timeSpent |-> logs[l].timeSpent]

\* logs.where('taskId').equals(taskId).toArray(): in primary-key order
LogsOfTask(logs, taskId) ==
  LET mine == {l \in DOMAIN logs : logs[l].taskId = taskId}
  IN {[i \in 1..Len(q) |-> LogObject(logs, q[i])] : q \in Sorted(mine, [l \in mine |-> 0])}

\* what the caller of handleDexieError(dexiePromise) sees: the promise
\* resolves when storage is enabled and rejects when it is not
handleDexieError == storageEnabled

\* the result of a dispatched action: the database, the store, and whether
\* the action's promise resolved (ok) or rejected
Result(d, s, ok) == [db |-> d, state |-> s, ok |-> ok]

-----------------------------------------------------------------------------
(* The actions of the store, as the set of results a dispatch may have *)

updateSetting(d, s, key, value) ==
  LET d1 == [d EXCEPT !.settings[key] = <<value>>]
  IN IF handleDexieError
     THEN {Result(d1, mutations_updateSetting(s, key, value), TRUE)}
     ELSE {Result(d1, s, FALSE)}

selectTask(d, s, taskId) ==
  UNION {IF ~r.ok THEN {r}
         ELSE IF taskId # NULL
         THEN {Result(r.db, mutations_setSelectedTaskLogs(r.state, logs), TRUE) :
                 logs \in LogsOfTask(r.db.logs, taskId)}
         ELSE {Result(r.db, mutations_setSelectedTaskLogs(r.state, <<>>), TRUE)} :
         r \in updateSetting(d, s, "selectedTaskID", taskId)}

\* the logs the loop of loadInitialData stops
Orphans(logs) ==
  {l \in DOMAIN logs : ~Truthy(logs[l].stopped) /\ Truthy(logs[l].timeSpent)}

\* the reconciliation as it would be if it stopped the logs at the time of the load
StopOrphans_atLoad(logs, ls) ==
  [l \in DOMAIN logs |->
     IF l \in ls THEN [logs[l] EXCEPT !.stopped = now] ELSE logs[l]]

StopOrphans(logs, ls) ==
  [l \in DOMAIN logs |->
     IF l \in ls THEN [logs[l] EXCEPT !.stopped = logs[l].started + logs[l].timeSpent]
     ELSE logs[l]]

loadInitialData(d, s) ==
  IF ~handleDexieError /\ Orphans(d.logs) # {}
  THEN \* the first put is issued, its rejection ends the action
       {Result([d EXCEPT !.logs = StopOrphans(@, {l})], s, FALSE) : l \in Orphans(d.logs)}
  ELSE LET d1 == [d EXCEPT !.logs = StopOrphans(@, Orphans(@))]
           selected == d.settings.selectedTaskID
           logArrs == IF selected # <<>> /\ selected[1] # NULL
                      THEN LogsOfTask(d1.logs, selected[1])
                      ELSE {<<>>}
           taskArrs == Sorted(DOMAIN d.tasks, [t \in DOMAIN d.tasks |-> d.tasks[t].order])
           tagArrs == Sorted(DOMAIN d.tags, [g \in DOMAIN d.tags |-> d.tags[g].order])
       IN {LET m == mutations_loadInitialData(s, taskArr, d.tasks, tagArr, d.tags,
                                              rows, d.settings, logs)
           IN Result(d1, m.state, ~m.thrown) :
             taskArr \in taskArrs, tagArr \in tagArrs,
             rows \in ListsOf(d.taskTagMap), logs \in logArrs}

\* the reduce as it would be if it returned its initial value
MaxOrder_initial(s, ids) == 0

\* Math.max of the orders of the tasks of the store and 0
RECURSIVE MaxOrder(_, _)
MaxOrder(s, ids) ==
  IF ids = {} THEN 0
  ELSE LET t == CHOOSE x \in ids : TRUE
           rest == MaxOrder(s, ids \ {t})
       IN IF s.tasks[t].order > rest THEN s.tasks[t].order ELSE rest

addTask(d, s, name, newId) ==
  LET taskName == trim(name)
      newTask == [name |-> taskName, notes |-> <<>>,
                  order |-> MaxOrder(s, DOMAIN s.tasks) + 1, created_at |-> now,
                  completed |-> NULL, archived |-> "undefined"]
      d1 == [d EXCEPT !.tasks = Put(@, newId, newTask)]
      tagIds == IF s.settings.addSelectedTags /\ Len(s.settings.selectedTagIds) > 0
                THEN s.settings.selectedTagIds ELSE <<>>
      d2 == [d1 EXCEPT !.taskTagMap = BulkAddRows(@, newId, tagIds)]
      s2 == mutations_addTask(s, newId, newTask, tagIds)
  IN IF taskName = <<>> THEN {Result(d, s, TRUE)}
     ELSE IF ~handleDexieError THEN {Result(d1, s, TRUE)}
     ELSE {Result(r.db, r.state, TRUE) : r \in selectTask(d2, s2, newId)}

updateTaskName(d, s, taskId, name) ==
  IF taskId \notin DOMAIN s.tasks THEN {Result(d, s, TRUE)}
  ELSE LET d1 == [d EXCEPT !.tasks = TableUpdate(@, taskId, {"name"}, [name |-> name])]
       IN IF handleDexieError
          THEN {Result(d1, mutations_updateTask(s, taskId, {"name"}, [name |-> name]), TRUE)}
          ELSE {Result(d1, s, TRUE)}

updateTaskNotes(d, s, taskId, notes) ==
  IF taskId \notin DOMAIN s.tasks THEN {Result(d, s, TRUE)}
  ELSE LET d1 == [d EXCEPT !.tasks = TableUpdate(@, taskId, {"notes"}, [notes |-> notes])]
       IN IF handleDexieError
          THEN {Result(d1, mutations_updateTask(s, taskId, {"notes"}, [notes |-> notes]), TRUE)}
          ELSE {Result(d1, s, TRUE)}

\* the else branch as it would be if it left the incomplete tasks as they are
Merge_untouched(incompleteTasks, listed, newOrder) == incompleteTasks

\* the else branch of reorderIncompleteTasks: the listed tasks take, in the
\* given order, the places the listed tasks have among the incomplete tasks
RECURSIVE Merge(_, _, _)
Merge(incompleteTasks, listed, newOrder) ==
  IF incompleteTasks = <<>> THEN <<>>
  ELSE IF Head(incompleteTasks) \in listed /\ newOrder # <<>>
       THEN <<Head(newOrder)>> \o Merge(Tail(incompleteTasks), listed, Tail(newOrder))
       ELSE <<Head(incompleteTasks)>> \o Merge(Tail(incompleteTasks), listed, newOrder)

\* the position of the last occurrence of t in q, counted from 0: the order
\* the loop task.order = i over q.entries() leaves on t
LastIndex(q, t) ==
  (CHOOSE i \in 1..Len(q) : q[i] = t /\ \A j \in (i + 1)..Len(q) : q[j] # t) - 1

reorderIncompleteTasks(d, s, newIncompleteTaskOrder) ==
  LET all == TaskValues(s)
      incomplete == {t \in DOMAIN s.tasks : ~Truthy(s.tasks[t].completed)}
      incompleteTasks == SeqFilter(all, incomplete)
      completedTasks == SeqFilter(all, SeqRange(all) \ incomplete)
      fullTaskOrder ==
        IF Len(newIncompleteTaskOrder) = Len(incompleteTasks)
        THEN newIncompleteTaskOrder \o completedTasks
        ELSE Merge(incompleteTasks, SeqRange(newIncompleteTaskOrder),
                   newIncompleteTaskOrder) \o completedTasks
      \* task.order = i is written to the objects of the store
      reordered == [t \in DOMAIN s.tasks |->
                      IF t \in SeqRange(fullTaskOrder)
                      THEN [s.tasks[t] EXCEPT !.order = LastIndex(fullTaskOrder, t)]
                      ELSE s.tasks[t]]
      s1 == [s EXCEPT !.tasks = reordered]
      d1 == [d EXCEPT !.tasks =
               [t \in (DOMAIN d.tasks) \cup SeqRange(fullTaskOrder) |->
                  IF t \in SeqRange(fullTaskOrder) THEN reordered[t] ELSE d.tasks[t]]]
  IN IF handleDexieError
     THEN {Result(d1, mutations_setTasks(s1, fullTaskOrder, reordered), TRUE)}
     ELSE {Result(d1, s1, TRUE)}

\* stopTask as it would be if it found no running log
stopTask_noneFound(d, s) ==
  {Result(d, s, TRUE)}

stopTask(d, s) ==
  LET running == {l \in DOMAIN d.logs : d.logs[l].stopped = NULL}
  IN IF running = {} THEN {Result(d, s, TRUE)}
     ELSE {LET runningLog == [d.logs[l] EXCEPT !.stopped = now,
                                              !.timeSpent = now - d.logs[l].started]
               d1 == [d EXCEPT !.logs = Put(@, l, runningLog)]
           IN IF handleDexieError
              THEN Result(d1, mutations_updateLog(s, runningLog.taskId,
                                                  LogObject(d1.logs, l)), TRUE)
              ELSE Result(d1, s, TRUE) :
           l \in running}

startTask(d, s, taskId, newId) ==
  {IF taskId \notin DOMAIN r.state.tasks THEN r
   ELSE LET log == [taskId |-> taskId, started |-> now, stopped |-> NULL,
                    timeSpent |-> NULL]
            d1 == [r.db EXCEPT !.logs = Put(@, newId, log)]
        IN IF handleDexieError
           THEN Result(d1, mutations_startTask(r.state, LogObject(d1.logs, newId)), TRUE)
           ELSE Result(d1, r.state, TRUE) :
   r \in stopTask(d, s)}

updateTaskTimer(d, s, taskId) ==
  LET running == {l \in DOMAIN d.logs :
                    d.logs[l].taskId = taskId /\ d.logs[l].stopped = NULL}
  IN IF taskId \notin DOMAIN s.tasks \/ running = {} THEN {Result(d, s, TRUE)}
     ELSE {LET runningLog == [d.logs[l] EXCEPT !.timeSpent = now - d.logs[l].started]
               d1 == [d EXCEPT !.logs = Put(@, l, runningLog)]
           IN IF handleDexieError
              THEN Result(d1, mutations_updateLog(s, taskId, LogObject(d1.logs, l)), TRUE)
              ELSE Result(d1, s, TRUE) :
           l \in running}

completeTask(d, s, taskId) ==
  IF taskId \notin DOMAIN s.tasks THEN {Result(d, s, TRUE)}
  ELSE LET task == s.tasks[taskId]
           stopped == IF ~Truthy(task.completed) /\ taskId = s.tempState.activeTaskID
                         /\ s.tempState.running
                      THEN stopTask(d, s) ELSE {Result(d, s, TRUE)}
           completedValue == IF ~Truthy(task.completed) THEN now ELSE NULL
       IN {Result([r.db EXCEPT !.tasks = TableUpdate(@, taskId, {"completed"},
                                                     [completed |-> completedValue])],
                  mutations_updateTask(r.state, taskId, {"completed"},
                                       [completed |-> completedValue]),
                  TRUE) : r \in stopped}

\* !task.archived
Not(archived) == IF archived = "true" THEN "false" ELSE "true"

archiveTask(d, s, taskId) ==
  IF taskId \notin DOMAIN s.tasks THEN {Result(d, s, TRUE)}
  ELSE LET archived == Not(s.tasks[taskId].archived)
       IN {Result([d EXCEPT !.tasks = TableUpdate(@, taskId, {"archived"},
                                                  [archived |-> archived])],
                  mutations_updateTask(s, taskId, {"archived"}, [archived |-> archived]),
                  TRUE)}

\* confirmed is the answer confirm gives when it is asked
archiveTasks(d, s, confirmed) ==
  LET completedTasks == {t \in completedTasksFiltered(s) : s.tasks[t].archived # "true"}
      taskIds == completedTasks
      d1 == [d EXCEPT !.tasks =
               [t \in DOMAIN d.tasks |->
                  IF t \in taskIds THEN [d.tasks[t] EXCEPT !.archived = "true"]
                  ELSE d.tasks[t]]]
      found == taskIds \cap DOMAIN d1.tasks
  IN IF Cardinality(completedTasks) = 0 THEN {Result(d, s, TRUE)}
     ELSE IF Cardinality(completedTasks) = 1 \/ confirmed
     THEN IF handleDexieError
          THEN {Result(d1, mutations_updateTasks(s, tasksToUpdate, d1.tasks), TRUE) :
                  tasksToUpdate \in Sorted(found, [t \in found |-> 0])}
          ELSE {Result(d1, s, FALSE)}
     ELSE {Result(d, s, TRUE)}

addInterval(d, s, taskId, started, timeSpent, stopped, newId) ==
  IF taskId \notin DOMAIN s.tasks THEN {Result(d, s, TRUE)}
  ELSE LET log == [taskId |-> taskId, started |-> started, stopped |-> stopped,
                   timeSpent |-> timeSpent]
           d1 == [d EXCEPT !.logs = Put(@, newId, log)]
       IN {Result(d1, mutations_updateLog(s, taskId, LogObject(d1.logs, newId)), TRUE)}

updateInterval(d, s, logId, started, timeSpent, stopped) ==
  IF logId \notin DOMAIN d.logs THEN {Result(d, s, TRUE)}
  ELSE LET log == [d.logs[logId] EXCEPT !.started = started, !.stopped = stopped,
                                       !.timeSpent = timeSpent]
           d1 == [d EXCEPT !.logs = Put(@, logId, log)]
       IN IF handleDexieError
          THEN {Result(d1, mutations_updateLog(s, log.taskId, LogObject(d1.logs, logId)), TRUE)}
          ELSE {Result(d1, s, TRUE)}

deleteInterval(d, s, logId) ==
  IF logId \notin DOMAIN d.logs THEN {Result(d, s, TRUE)}
  ELSE LET d1 == [d EXCEPT !.logs = Del(@, {logId})]
       IN IF handleDexieError
          THEN {Result(d1, mutations_deleteInterval(s, d.logs[logId].taskId, logId), TRUE)}
          ELSE {Result(d1, s, TRUE)}

\* tags.orderBy('order').last(): the order of a tag of greatest order
RECURSIVE MaxTagOrder(_, _)
MaxTagOrder(tags, ids) ==
  LET g == CHOOSE x \in ids : TRUE
  IN IF ids = {g} THEN tags[g].order
     ELSE LET rest == MaxTagOrder(tags, ids \ {g})
          IN IF tags[g].order > rest THEN tags[g].order ELSE rest

\* color is the colour ColorManager draws for a new tag
addTaskTagByName(d, s, taskId, tagName, newId, color) ==
  LET trimmedTagName == trim(tagName)
      named == {g \in DOMAIN d.tags : d.tags[g].tagName = trimmedTagName}
      newTag == [tagName |-> trimmedTagName, color |-> color,
                 order |-> IF DOMAIN d.tags = {} THEN 0
                           ELSE MaxTagOrder(d.tags, DOMAIN d.tags) + 1]
      WithTag(d0, g, tag, isNewTag) ==
        Result([d0 EXCEPT !.taskTagMap = @ (+) SetToBag({TaskTagRow(taskId, g)})],
               mutations_addTaskTag(s, taskId, g, tag, isNewTag).state, TRUE)
  IN IF trimmedTagName = <<>> \/ taskId \notin DOMAIN s.tasks THEN {Result(d, s, TRUE)}
     ELSE IF named = {}
     THEN {WithTag([d EXCEPT !.tags = Put(@, newId, newTag)], newId, newTag, TRUE)}
     ELSE {WithTag(d, g, d.tags[g], FALSE) : g \in named}

addTaskTagById(d, s, taskId, tagId) ==
  IF taskId \notin DOMAIN s.tasks \/ tagId \notin DOMAIN s.tags THEN {Result(d, s, TRUE)}
  ELSE LET d1 == [d EXCEPT !.taskTagMap = @ (+) SetToBag({TaskTagRow(taskId, tagId)})]
           m == mutations_addTaskTag(s, taskId, tagId, s.tags[tagId], FALSE)
       IN IF handleDexieError THEN {Result(d1, m.state, ~m.thrown)}
          ELSE {Result(d1, s, FALSE)}

\* tagUpdates is a record of the updated fields
updateTag(d, s, tagId, tagUpdates) ==
  LET fields == DOMAIN tagUpdates
      taken == "tagName" \in fields /\ tagUpdates.tagName # <<>>
               /\ \E g \in DOMAIN d.tags :
                    g # tagId /\ d.tags[g].tagName = tagUpdates.tagName
      d1 == [d EXCEPT !.tags = TableUpdate(@, tagId, fields, tagUpdates)]
  IN IF tagId \notin DOMAIN d.tags \/ taken THEN {Result(d, s, TRUE)}
     ELSE IF handleDexieError
     THEN {Result(d1, mutations_updateTag(s, tagId, fields, tagUpdates), TRUE)}
     ELSE {Result(d1, s, FALSE)}

\* newOrder lists tags of the store
reorderTags(d, s, newOrder) ==
  LET reordered == [g \in DOMAIN s.tags |->
                      IF g \in SeqRange(newOrder)
                      THEN [s.tags[g] EXCEPT !.order = LastIndex(newOrder, g)]
                      ELSE s.tags[g]]
      \* tag.order = i is written to the objects of the store
      s1 == [s EXCEPT !.tags = reordered]
      d1 == [d EXCEPT !.tags =
               [g \in (DOMAIN d.tags) \cup SeqRange(newOrder) |->
                  IF g \in SeqRange(newOrder) THEN reordered[g] ELSE d.tags[g]]]
  IN IF handleDexieError
     THEN {Result(d1, mutations_updateTagOrder(s1, newOrder, reordered), TRUE)}
     ELSE {Result(d1, s1, FALSE)}

removeTaskTag(d, s, taskId, tagId) ==
  LET d1 == [d EXCEPT !.taskTagMap = RowsWithout(@, {TaskTagRow(taskId, tagId)})]
  IN {Result(d1, mutations_deleteTaskTag(s, taskId, newTagIds), TRUE) :
        newTagIds \in ListsOf(TagBagOf(d1.taskTagMap, taskId))}

\* deleteTag as it would be if it deleted before asking
deleteTag_unasked(d, s, tagId, confirmed) ==
  LET d1 == [d EXCEPT !.taskTagMap = RowsWithout(@, {r \in DOMAIN @ : r.tagId = tagId})]
      d2 == [d1 EXCEPT !.tags = Del(@, {tagId})]
      m == mutations_deleteTag(s, tagId)
  IN IF tagId \notin DOMAIN d.tags THEN {Result(d, s, TRUE)}
     ELSE IF handleDexieError THEN {Result(d2, m.state, ~m.thrown)}
     ELSE {Result(d1, s, FALSE)}

\* confirmed is the answer confirm gives when it is asked
deleteTag(d, s, tagId, confirmed) ==
  LET d1 == [d EXCEPT !.taskTagMap = RowsWithout(@, {r \in DOMAIN @ : r.tagId = tagId})]
      d2 == [d1 EXCEPT !.tags = Del(@, {tagId})]
      m == mutations_deleteTag(s, tagId)
  IN IF tagId \notin DOMAIN d.tags \/ ~confirmed THEN {Result(d, s, TRUE)}
     ELSE IF handleDexieError THEN {Result(d2, m.state, ~m.thrown)}
     ELSE {Result(d1, s, FALSE)}

addTagFilter(d, s, tagId) ==
  LET selectedTagIds == Append(s.settings.selectedTagIds, tagId)
      \* push is made on the array of the store
      s1 == [s EXCEPT !.settings.selectedTagIds = selectedTagIds]
  IN updateSetting(d, s1, "selectedTagIds", selectedTagIds)

removeTagFilter(d, s, tagId) ==
  LET selectedTagIds == SeqFilter(s.settings.selectedTagIds,
                                  SeqRange(s.settings.selectedTagIds) \ {tagId})
  IN updateSetting(d, s, "selectedTagIds", selectedTagIds)

removeAllTagFilters(d, s) ==
  LET d1 == [d EXCEPT !.settings.selectedTagIds = << <<>> >>]
  IN IF handleDexieError THEN updateSetting(d1, s, "selectedTagIds", <<>>)
     ELSE {Result(d1, s, FALSE)}

deleteAllArchivedTasks(d, s) ==
  LET taskIds == archivedTasks(s)
      d1 == [d EXCEPT !.logs = Del(@, {l \in DOMAIN @ : d.logs[l].taskId \in taskIds})]
      d2 == [d1 EXCEPT !.taskTagMap = RowsWithout(@, {r \in DOMAIN @ : r.taskId \in taskIds})]
      d3 == [d2 EXCEPT !.tasks = Del(@, taskIds)]
  IN IF taskIds = {} THEN {Result(d, s, TRUE)}
     ELSE IF handleDexieError THEN {Result(d3, mutations_deleteTasks(s, taskIds), TRUE)}
     ELSE {Result(d1, s, FALSE)}

-----------------------------------------------------------------------------
(* Dispatches *)

\* last records the dispatch that made the step: the action, its arguments,
\* the answer of confirm, and whether its promise resolved
Dispatched(op, a, b, confirmed) ==
  [op |-> op, a |-> a, b |-> b, confirmed |-> confirmed, ok |-> TRUE]

\* budget is the number of events left to the session, NULL when the
\* specification does not bound them
Spend ==
  /\ budget # 0
  /\ budget' = IF budget = NULL THEN NULL ELSE budget - 1

\* an action dispatched when no other action is waiting, run to completion
Dispatch(results, l) ==
  /\ Spend
  /\ calls = <<>>
  /\ \E r \in results :
       /\ db' = r.db
       /\ state' = r.state
       /\ last' = [l EXCEPT !.ok = r.ok]
  /\ UNCHANGED <<storageEnabled, now, calls>>

\* the rearrangements of the subsets of S
Rearrangements(S) ==
  UNION {{q \in [1..n -> S] : \A i, j \in 1..n : i < j => q[i] # q[j]} :
           n \in 0..Cardinality(S)}

\* a fresh installation: an empty database and the store as created
InitWith(steps) ==
  /\ db = emptyDb
  /\ state = initialState
  /\ storageEnabled = TRUE
  /\ now = 1
  /\ nano = [task |-> 1, tag |-> 1, log |-> 1]
  /\ budget = steps
  /\ last = Dispatched("init", NULL, NULL, FALSE)
  /\ calls = <<>>

Init == InitWith(MaxSteps)

InitAll == InitWith(MaxStepsAll)

InitUnbounded == InitWith(NULL)

\* the page is loaded again: the store is created anew and loadInitialData runs
Reload ==
  /\ Dispatch(loadInitialData(db, initialState), Dispatched("reload", NULL, NULL, FALSE))
  /\ UNCHANGED nano

Dispatch_loadInitialData ==
  /\ Dispatch(loadInitialData(db, state), Dispatched("loadInitialData", NULL, NULL, FALSE))
  /\ UNCHANGED nano

\* the disk-space check of storageManager turns storage off and on
SetStorageEnabled ==
  /\ Spend
  /\ storageEnabled' = ~storageEnabled
  /\ last' = Dispatched("setStorageEnabled", NULL, NULL, FALSE)
  /\ UNCHANGED <<db, state, now, nano, calls>>

\* Date.now() advances
Tick ==
  /\ Spend
  /\ now < MaxTime
  /\ now' = now + 1
  /\ last' = Dispatched("tick", NULL, NULL, FALSE)
  /\ UNCHANGED <<db, state, storageEnabled, nano, calls>>

Dispatch_addTask ==
  \E name \in TaskNameInputs :
    /\ nano.task <= MaxTasks
    /\ BagCardinality(db.taskTagMap) + Len(state.settings.selectedTagIds) <= MaxRows
    /\ Dispatch(addTask(db, state, name, nano.task),
                Dispatched("addTask", IF trim(name) = <<>> THEN NULL ELSE nano.task,
                           NULL, FALSE))
    /\ nano' = IF trim(name) = <<>> THEN nano ELSE [nano EXCEPT !.task = @ + 1]

Dispatch_updateTaskName ==
  \E taskId \in TaskIds, name \in RenameInputs :
    /\ Dispatch(updateTaskName(db, state, taskId, name),
                Dispatched("updateTaskName", taskId, NULL, FALSE))
    /\ UNCHANGED nano

Dispatch_updateTaskNotes ==
  \E taskId \in TaskIds, notes \in NotesInputs :
    /\ Dispatch(updateTaskNotes(db, state, taskId, notes),
                Dispatched("updateTaskNotes", taskId, NULL, FALSE))
    /\ UNCHANGED nano

Dispatch_reorderIncompleteTasks ==
  \E newOrder \in Rearrangements({t \in DOMAIN state.tasks :
                                    ~Truthy(state.tasks[t].completed)}) :
    /\ Dispatch(reorderIncompleteTasks(db, state, newOrder),
                Dispatched("reorderIncompleteTasks", Len(newOrder), NULL, FALSE))
    /\ UNCHANGED nano

Dispatch_startTask ==
  \E taskId \in TaskIds :
    /\ nano.log <= MaxLogs
    /\ Dispatch(startTask(db, state, taskId, nano.log),
                Dispatched("startTask", taskId, NULL, FALSE))
    /\ nano' = IF taskId \in DOMAIN state.tasks THEN [nano EXCEPT !.log = @ + 1] ELSE nano

Dispatch_updateTaskTimer ==
  \E taskId \in TaskIds :
    /\ Dispatch(updateTaskTimer(db, state, taskId),
                Dispatched("updateTaskTimer", taskId, NULL, FALSE))
    /\ UNCHANGED nano

Dispatch_stopTask ==
  /\ Dispatch(stopTask(db, state), Dispatched("stopTask", NULL, NULL, FALSE))
  /\ UNCHANGED nano

Dispatch_completeTask ==
  \E taskId \in TaskIds :
    /\ Dispatch(completeTask(db, state, taskId),
                Dispatched("completeTask", taskId, NULL, FALSE))
    /\ UNCHANGED nano

Dispatch_archiveTask ==
  \E taskId \in TaskIds :
    /\ Dispatch(archiveTask(db, state, taskId),
                Dispatched("archiveTask", taskId, NULL, FALSE))
    /\ UNCHANGED nano

\* Restore of the archive dropdown: dispatch('archiveTask', { taskId,
\* archived: false }); archiveTask takes only taskId out of the payload
Dispatch_unarchiveTask ==
  \E taskId \in TaskIds :
    /\ Dispatch(archiveTask(db, state, taskId),
                Dispatched("unarchiveTask", taskId, NULL, FALSE))
    /\ UNCHANGED nano

Dispatch_archiveTasks ==
  \E confirmed \in BOOLEAN :
    /\ Dispatch(archiveTasks(db, state, confirmed),
                Dispatched("archiveTasks", NULL, NULL, confirmed))
    /\ UNCHANGED nano

Dispatch_addInterval ==
  \E taskId \in TaskIds, i \in IntervalInputs :
    /\ nano.log <= MaxLogs
    /\ Dispatch(addInterval(db, state, taskId, i.started, i.timeSpent, i.stopped, nano.log),
                Dispatched("addInterval", taskId, NULL, FALSE))
    /\ nano' = IF taskId \in DOMAIN state.tasks THEN [nano EXCEPT !.log = @ + 1] ELSE nano

Dispatch_updateInterval ==
  \E logId \in LogIds, i \in IntervalInputs :
    /\ Dispatch(updateInterval(db, state, logId, i.started, i.timeSpent, i.stopped),
                Dispatched("updateInterval", logId, NULL, FALSE))
    /\ UNCHANGED nano

Dispatch_deleteInterval ==
  \E logId \in LogIds :
    /\ Dispatch(deleteInterval(db, state, logId),
                Dispatched("deleteInterval", logId, NULL, FALSE))
    /\ UNCHANGED nano

\* whether addTaskTagByName creates a tag
CreatesTag(taskId, tagName) ==
  /\ trim(tagName) # <<>>
  /\ taskId \in DOMAIN state.tasks
  /\ \A g \in DOMAIN db.tags : db.tags[g].tagName # trim(tagName)

Dispatch_addTaskTagByName ==
  \E taskId \in TaskIds, tagName \in TagNameInputs, color \in Colors :
    /\ BagCardinality(db.taskTagMap) < MaxRows
    /\ CreatesTag(taskId, tagName) => nano.tag <= MaxTags
    /\ Dispatch(addTaskTagByName(db, state, taskId, tagName, nano.tag, color),
                Dispatched("addTaskTagByName", taskId, NULL, FALSE))
    /\ nano' = IF CreatesTag(taskId, tagName) THEN [nano EXCEPT !.tag = @ + 1] ELSE nano

Dispatch_addTaskTagById ==
  \E taskId \in TaskIds, tagId \in TagIds :
    /\ BagCardinality(db.taskTagMap) < MaxRows
    /\ Dispatch(addTaskTagById(db, state, taskId, tagId),
                Dispatched("addTaskTagById", taskId, tagId, FALSE))
    /\ UNCHANGED nano

\* the updates the tag editor sends
TagUpdateInputs ==
  {[tagName |-> n] : n \in TagNameInputs} \cup {[color |-> c] : c \in PickedColors}

Dispatch_updateTag ==
  \E tagId \in TagIds, tagUpdates \in TagUpdateInputs :
    /\ Dispatch(updateTag(db, state, tagId, tagUpdates),
                Dispatched("updateTag", tagId, NULL, FALSE))
    /\ UNCHANGED nano

Dispatch_reorderTags ==
  \E newOrder \in {q \in Rearrangements(DOMAIN state.tags) :
                     Len(q) = Cardinality(DOMAIN state.tags)} :
    /\ Dispatch(reorderTags(db, state, newOrder),
                Dispatched("reorderTags", Len(newOrder), NULL, FALSE))
    /\ UNCHANGED nano

Dispatch_removeTaskTag ==
  \E taskId \in TaskIds, tagId \in TagIds :
    /\ Dispatch(removeTaskTag(db, state, taskId, tagId),
                Dispatched("removeTaskTag", taskId, tagId, FALSE))
    /\ UNCHANGED nano

Dispatch_deleteTag ==
  \E tagId \in TagIds, confirmed \in BOOLEAN :
    /\ Dispatch(deleteTag(db, state, tagId, confirmed),
                Dispatched("deleteTag", tagId, NULL, confirmed))
    /\ UNCHANGED nano

Dispatch_selectTask ==
  \E taskId \in (DOMAIN state.tasks) \cup {NULL} :
    /\ Dispatch(selectTask(db, state, taskId),
                Dispatched("selectTask", taskId, NULL, FALSE))
    /\ UNCHANGED nano

Dispatch_addTagFilter ==
  \E tagId \in DOMAIN state.tags :
    /\ Len(state.settings.selectedTagIds) < MaxFilter
    /\ Dispatch(addTagFilter(db, state, tagId),
                Dispatched("addTagFilter", tagId, NULL, FALSE))
    /\ UNCHANGED nano

Dispatch_removeTagFilter ==
  \E tagId \in TagIds :
    /\ Dispatch(removeTagFilter(db, state, tagId),
                Dispatched("removeTagFilter", tagId, NULL, FALSE))
    /\ UNCHANGED nano

\* the toggle of the setting addSelectedTags
Dispatch_updateSetting ==
  \E value \in BOOLEAN :
    /\ Dispatch(updateSetting(db, state, "addSelectedTags", value),
                Dispatched("updateSetting", NULL, NULL, FALSE))
    /\ UNCHANGED nano

Dispatch_removeAllTagFilters ==
  /\ Dispatch(removeAllTagFilters(db, state),
              Dispatched("removeAllTagFilters", NULL, NULL, FALSE))
  /\ UNCHANGED nano

Dispatch_deleteAllArchivedTasks ==
  /\ Dispatch(deleteAllArchivedTasks(db, state),
              Dispatched("deleteAllArchivedTasks", NULL, NULL, FALSE))
  /\ UNCHANGED nano

-----------------------------------------------------------------------------
(* Specifications *)

Next ==
  \/ Reload
  \/ Dispatch_loadInitialData
  \/ SetStorageEnabled
  \/ Tick
  \/ Dispatch_addTask
  \/ Dispatch_updateTaskName
  \/ Dispatch_updateTaskNotes
  \/ Dispatch_reorderIncompleteTasks
  \/ Dispatch_startTask
  \/ Dispatch_updateTaskTimer
  \/ Dispatch_stopTask
  \/ Dispatch_completeTask
  \/ Dispatch_archiveTask
  \/ Dispatch_archiveTasks
  \/ Dispatch_unarchiveTask
  \/ Dispatch_addInterval
  \/ Dispatch_updateInterval
  \/ Dispatch_deleteInterval
  \/ Dispatch_addTaskTagByName
  \/ Dispatch_addTaskTagById
  \/ Dispatch_updateTag
  \/ Dispatch_reorderTags
  \/ Dispatch_removeTaskTag
  \/ Dispatch_deleteTag
  \/ Dispatch_selectTask
  \/ Dispatch_addTagFilter
  \/ Dispatch_removeTagFilter
  \/ Dispatch_updateSetting
  \/ Dispatch_removeAllTagFilters
  \/ Dispatch_deleteAllArchivedTasks

\* every action, storage turning off and on, sessions of MaxStepsAll events
Spec == InitAll /\ [][Next]_vars

\* the timer and reloads, storage enabled, sessions of any length
NextTimer ==
  \/ Reload
  \/ Dispatch_loadInitialData
  \/ Tick
  \/ Dispatch_addTask
  \/ Dispatch_selectTask
  \/ Dispatch_startTask
  \/ Dispatch_updateTaskTimer
  \/ Dispatch_stopTask

SpecTimer == InitUnbounded /\ [][NextTimer]_vars

\* tasks and tags, storage enabled, sessions of MaxSteps events
NextStore ==
  \/ Dispatch_addTask
  \/ Dispatch_updateTaskName
  \/ Dispatch_updateTaskNotes
  \/ Dispatch_reorderIncompleteTasks
  \/ Dispatch_completeTask
  \/ Dispatch_archiveTask
  \/ Dispatch_archiveTasks
  \/ Dispatch_deleteAllArchivedTasks
  \/ Dispatch_addTaskTagByName
  \/ Dispatch_updateTag
  \/ Dispatch_reorderTags
  \/ Dispatch_deleteTag

SpecStore == Init /\ [][NextStore]_vars

\* tag membership, storage enabled, sessions of MaxSteps events
NextTags ==
  \/ Dispatch_loadInitialData
  \/ Dispatch_addTask
  \/ Dispatch_archiveTask
  \/ Dispatch_deleteAllArchivedTasks
  \/ Dispatch_addTaskTagByName
  \/ Dispatch_addTaskTagById
  \/ Dispatch_removeTaskTag
  \/ Dispatch_deleteTag
  \/ Dispatch_addTagFilter
  \/ Dispatch_updateSetting

SpecTags == Init /\ [][NextTags]_vars

\* settings and reloads, storage enabled, sessions of any length
NextSettings ==
  \/ Reload
  \/ Dispatch_addTask
  \/ Dispatch_addTaskTagByName
  \/ Dispatch_deleteTag
  \/ Dispatch_selectTask
  \/ Dispatch_addTagFilter
  \/ Dispatch_removeTagFilter
  \/ Dispatch_updateSetting
  \/ Dispatch_removeAllTagFilters

SpecSettings == InitUnbounded /\ [][NextSettings]_vars

\* deletions and confirmations, storage turning off and on, sessions of
\* MaxSteps events
NextLowDisk ==
  \/ SetStorageEnabled
  \/ Dispatch_addTask
  \/ Dispatch_selectTask
  \/ Dispatch_startTask
  \/ Dispatch_completeTask
  \/ Dispatch_archiveTask
  \/ Dispatch_archiveTasks
  \/ Dispatch_deleteAllArchivedTasks
  \/ Dispatch_addTaskTagByName
  \/ Dispatch_addTaskTagById
  \/ Dispatch_addTagFilter
  \/ Dispatch_deleteTag

SpecLowDisk == Init /\ [][NextLowDisk]_vars

-----------------------------------------------------------------------------
(* Claims *)

\* a log with no stop time
Running(logs, l) == logs[l].stopped = NULL

\* C1: after loadInitialData has completed with storage enabled, no log of
\* the database is still running: every log has a stop time, also one that
\* never received a timer tick.
C1_NoRunningLogAfterLoad ==
  (last.op \in {"reload", "loadInitialData"} /\ last.ok /\ storageEnabled)
    => \A l \in DOMAIN db.logs : ~Running(db.logs, l)

\* the store reports the timer as running for a task whose log is running
TimerInProgress ==
  /\ state.tempState.running
  /\ state.tempState.activeTaskID \in DOMAIN state.tasks
  /\ \E l \in DOMAIN db.logs :
       db.logs[l].taskId = state.tempState.activeTaskID /\ Running(db.logs, l)

\* C2: a reload while the timer started by startTask(T) is in progress leaves
\* the store reporting the timer as running for T.
C2_TimerResumedAfterReload ==
  [][(TimerInProgress /\ last'.op = "reload" /\ last'.ok)
       => state'.tempState = state.tempState]_vars

TasksMirror ==
  /\ DOMAIN state.tasks = DOMAIN db.tasks
  /\ \A t \in DOMAIN state.tasks : state.tasks[t] = db.tasks[t]

TagsMirror ==
  /\ DOMAIN state.tags = DOMAIN db.tags
  /\ \A g \in DOMAIN state.tags : state.tags[g] = db.tags[g]

\* C3: with storage enabled, after every completed action state.tasks holds
\* exactly the rows of the tasks table and state.tags exactly the rows of the
\* tags table, with equal field values.
C3_StoreMirrorsDatabase == TasksMirror /\ TagsMirror

C3_Witness ==
  /\ last.op = "archiveTasks"
  /\ \E t \in DOMAIN db.tasks : db.tasks[t].archived = "true"
  /\ \E g \in DOMAIN db.tags : db.tags[g].color \in PickedColors

\* the number of taskTagMap rows of the task with the tag
RowCount(rows, taskId, tagId) ==
  IF TaskTagRow(taskId, tagId) \in DOMAIN rows THEN rows[TaskTagRow(taskId, tagId)] ELSE 0

\* C4: with storage enabled, for every task of state.tasks the list
\* state.taskTagsMap[task] holds, with the same multiplicities, exactly the
\* tag ids of the task's taskTagMap rows.
C4_TagMapAgrees ==
  \A t \in DOMAIN state.tasks :
    /\ t \in DOMAIN state.taskTagsMap
    /\ \A g \in SeqRange(state.taskTagsMap[t]) \cup {r.tagId : r \in DOMAIN db.taskTagMap} :
         Count(state.taskTagsMap[t], g) = RowCount(db.taskTagMap, t, g)

C4_Witness ==
  /\ last.op = "deleteTag" /\ last.confirmed
  /\ last.a \notin DOMAIN db.tags
  /\ \E t \in DOMAIN state.tasks : Len(state.taskTagsMap[t]) > 0

\* C5: with storage enabled, the settings of the store are the settings a
\* reload reads back from the settings table, also selectedTagIds after
\* deleteTag removed a tag of the filter.
C5_SettingsPersisted == LoadedSettings(db.settings) = state.settings

\* C6: while storage is disabled no action adds, modifies or deletes a row
\* of a table.
C6_NoWriteWhileDisabled ==
  [][(~storageEnabled /\ last'.op # "setStorageEnabled") => db' = db]_vars


\* the completed tasks archiveTasks is about to archive
ToArchive == {t \in completedTasksFiltered(state) : state.tasks[t].archived # "true"}

NothingChanged == db' = db /\ state' = state

\* C7: deleteTag and archiveTasks change nothing when the confirmation is
\* declined; archiveTasks changes nothing with no unarchived completed task
\* and, with exactly one, archives it whatever confirm would answer.
C7_DeclinedConfirmChangesNothing ==
  [][/\ (last'.op = "deleteTag" /\ ~last'.confirmed) => NothingChanged
     /\ (last'.op = "archiveTasks" /\ Cardinality(ToArchive) >= 2 /\ ~last'.confirmed)
          => NothingChanged
     /\ (last'.op = "archiveTasks" /\ Cardinality(ToArchive) = 0) => NothingChanged
     /\ (last'.op = "archiveTasks" /\ Cardinality(ToArchive) = 1)
          => \A t \in ToArchive :
               /\ t \in DOMAIN db.tasks => db'.tasks[t].archived = "true"
               /\ last'.ok => state'.tasks[t].archived = "true"]_vars

C7_Witness ==
  /\ last.op = "archiveTasks" /\ ~last.confirmed
  /\ Cardinality(ToArchive) >= 2
  /\ \E g \in DOMAIN db.tags : TRUE

\* the rows of a bag of taskTagMap rows that satisfy keep
RowsOf(rows, keep) == [r \in DOMAIN rows \cap keep |-> rows[r]]

\* what deleteTag(g) promises of the step it makes
DeleteTagPost(g) ==
  /\ \A r \in DOMAIN db'.taskTagMap : r.tagId # g
  /\ \A t \in DOMAIN state'.taskTagsMap : g \notin SeqRange(state'.taskTagsMap[t])
  /\ g \notin DOMAIN db'.tags
  /\ g \notin DOMAIN state'.tags
  /\ g \notin SeqRange(state'.tagOrder)
  /\ g \notin SeqRange(state'.settings.selectedTagIds)
  \* every other tag and every other association is unchanged
  /\ db'.tags = Del(db.tags, {g})
  /\ state'.tags = Del(state.tags, {g})
  /\ db'.taskTagMap = RowsOf(db.taskTagMap, {r \in DOMAIN db.taskTagMap : r.tagId # g})
  /\ DOMAIN state'.taskTagsMap = DOMAIN state.taskTagsMap
  /\ \A t \in DOMAIN state.taskTagsMap :
       state'.taskTagsMap[t] = SeqFilter(state.taskTagsMap[t], SeqRange(state.taskTagsMap[t]) \ {g})
  /\ db'.tasks = db.tasks /\ db'.logs = db.logs /\ state'.tasks = state.tasks

\* C8: a deleteTag that was confirmed and has completed leaves no taskTagMap
\* row and no taskTagsMap list with the tag, has removed the tag from the
\* tags table, state.tags, state.tagOrder and state.settings.selectedTagIds,
\* and has changed no other tag and no other association.
C8_DeleteTagRemovesTag ==
  [][(last'.op = "deleteTag" /\ last'.confirmed /\ last'.ok) => DeleteTagPost(last'.a)]_vars

C8_Witness ==
  /\ last.op = "deleteTag" /\ last.confirmed /\ last.ok
  /\ last.a \notin DOMAIN db.tags /\ last.a < nano.tag
  /\ \E r \in DOMAIN db.taskTagMap : r.tagId # last.a

\* C9: no two tags of the tags table have the same name, whatever names
\* addTaskTagByName and updateTag are given, empty names included.
C9_TagNamesUnique ==
  \A g, h \in DOMAIN db.tags : db.tags[g].tagName = db.tags[h].tagName => g = h

\* what deleteAllArchivedTasks promises of the step it makes
DeleteAllArchivedPost ==
  LET archivedDb == {t \in DOMAIN db.tasks : db.tasks[t].archived = "true"}
      archivedStore == {t \in DOMAIN state.tasks : state.tasks[t].archived = "true"}
      deleted == (DOMAIN db.tasks \ DOMAIN db'.tasks) \cup (DOMAIN state.tasks \ DOMAIN state'.tasks)
  IN /\ \A t \in DOMAIN db'.tasks : db'.tasks[t].archived # "true"
     /\ \A t \in DOMAIN state'.tasks : state'.tasks[t].archived # "true"
     /\ deleted \subseteq archivedDb \cup archivedStore
     /\ \A l \in DOMAIN db'.logs : db'.logs[l].taskId \notin deleted
     /\ \A r \in DOMAIN db'.taskTagMap : r.taskId \notin deleted
     /\ \A t \in deleted : t \notin DOMAIN state'.taskTagsMap
     \* every task that is not archived, its logs and its tags are unchanged
     /\ \A t \in DOMAIN db.tasks \ archivedDb :
          /\ t \in DOMAIN db'.tasks /\ db'.tasks[t] = db.tasks[t]
          /\ \A l \in DOMAIN db.logs :
               db.logs[l].taskId = t => l \in DOMAIN db'.logs /\ db'.logs[l] = db.logs[l]
          /\ RowsOf(db'.taskTagMap, {r \in DOMAIN db'.taskTagMap : r.taskId = t})
               = RowsOf(db.taskTagMap, {r \in DOMAIN db.taskTagMap : r.taskId = t})
     /\ \A t \in DOMAIN state.tasks \ archivedStore :
          /\ t \in DOMAIN state'.tasks /\ state'.tasks[t] = state.tasks[t]
          /\ t \in DOMAIN state.taskTagsMap
               => t \in DOMAIN state'.taskTagsMap /\ state'.taskTagsMap[t] = state.taskTagsMap[t]
     /\ DOMAIN db'.logs \subseteq DOMAIN db.logs
     /\ DOMAIN db'.taskTagMap \subseteq DOMAIN db.taskTagMap
     /\ db'.tags = db.tags /\ state'.tags = state.tags
     /\ (archivedDb \cup archivedStore = {}) => NothingChanged

\* C10: a deleteAllArchivedTasks that has completed has deleted every
\* archived task and only archived tasks, with their logs, their taskTagMap
\* rows and their taskTagsMap lists, and has changed nothing of the other
\* tasks; with no archived task it changes nothing.
C10_DeletesArchivedOnly ==
  [][(last'.op = "deleteAllArchivedTasks" /\ last'.ok) => DeleteAllArchivedPost]_vars

\* archiving and restoring, storage enabled, sessions of any length
NextArchive ==
  \/ Dispatch_addTask
  \/ Dispatch_updateTaskName
  \/ Dispatch_completeTask
  \/ Dispatch_archiveTask
  \/ Dispatch_archiveTasks
  \/ Dispatch_unarchiveTask
  \/ Dispatch_deleteAllArchivedTasks

SpecArchive == InitUnbounded /\ [][NextArchive]_vars

\* C11: a Restore that has completed for a task of the store leaves the task
\* not archived in the tasks table and in state.tasks, whatever its archived
\* value was before, also when it is the second Restore of the same task.
C11_RestoreUnarchives ==
  (last.op = "unarchiveTask" /\ last.ok /\ last.a \in DOMAIN state.tasks)
    => /\ state.tasks[last.a].archived # "true"
       /\ last.a \in DOMAIN db.tasks => db.tasks[last.a].archived # "true"

\* C12: every log and every taskTagMap row of the database names a task of
\* the tasks table, and every taskTagMap row a tag of the tags table.
C12_NoDanglingReferences ==
  /\ \A l \in DOMAIN db.logs : db.logs[l].taskId \in DOMAIN db.tasks
  /\ \A r \in DOMAIN db.taskTagMap :
       r.taskId \in DOMAIN db.tasks /\ r.tagId \in DOMAIN db.tags

-----------------------------------------------------------------------------
(* Actions interleaving at their awaits *)

(* A Call_ action is the dispatch of a store action up to its first await, a
   Resume_ action its continuation from one await to the next.  calls holds
   the actions that wait at an await, with their local variables, in the
   order in which they issued the request they wait for.  Dexie requests are
   served in the order of issue: a read returns the rows as they are when it
   is issued, a write is made when it is issued, and the action that waits
   longest is the one that resumes. *)

NoLog == [taskId |-> NULL, started |-> NULL, stopped |-> NULL, timeSpent |-> NULL]

\* op: the action; pc: the await it waits at; logId, log: runningLog;
\* newId: the id of the log it adds; ok: what handleDexieError answered
Call(op, pc, taskId, logId, log, newId, taskIds, ok) ==
  [op |-> op, pc |-> pc, taskId |-> taskId, logId |-> logId, log |-> log,
   newId |-> newId, taskIds |-> taskIds, ok |-> ok]

\* the first call goes on as c and waits for the request it has now issued
Continue(c) == calls' = Append(Tail(calls), c)

\* the first call has settled
Settle == calls' = Tail(calls)

Async == Dispatched("async", NULL, NULL, FALSE)

\* logs.filter(log => log.stopped === null).first(): NULL when there is none
FirstRunning(logs) ==
  IF \E l \in DOMAIN logs : logs[l].stopped = NULL
  THEN {l \in DOMAIN logs : logs[l].stopped = NULL}
  ELSE {NULL}

\* logs.where('taskId').equals(taskId).and(log => log.stopped == null).first()
FirstRunningOf(logs, taskId) ==
  IF \E l \in DOMAIN logs : logs[l].taskId = taskId /\ logs[l].stopped = NULL
  THEN {l \in DOMAIN logs : logs[l].taskId = taskId /\ logs[l].stopped = NULL}
  ELSE {NULL}

\* stopTask up to the await of the read
Call_stopTask ==
  /\ Spend
  /\ Len(calls) < MaxCalls
  /\ \E l \in FirstRunning(db.logs) :
       calls' = Append(calls, Call("stopTask", "read", NULL, l,
                                   IF l = NULL THEN NoLog ELSE db.logs[l],
                                   NULL, {}, TRUE))
  /\ last' = Async
  /\ UNCHANGED <<db, state, storageEnabled, now, nano>>

\* stopTask after the read: the stop time is set on the log that was read
\* and the log is put
StopPut(c) ==
  LET runningLog == [c.log EXCEPT !.stopped = now, !.timeSpent = now - c.log.started]
  IN /\ db' = [db EXCEPT !.logs = Put(@, c.logId, runningLog)]
     /\ state' = state

\* stopTask after the put
StopCommit(c) ==
  IF c.ok
  THEN mutations_updateLog(state, c.log.taskId,
                           [id |-> c.logId, taskId |-> c.log.taskId,
                            started |-> c.log.started, stopped |-> c.log.stopped,
                            timeSpent |-> c.log.timeSpent])
  ELSE state

Resume_stopTask ==
  /\ calls # <<>>
  /\ LET c == Head(calls)
    IN /\ c.op = "stopTask"
       /\ \/ /\ c.pc = "read" /\ c.logId = NULL
             /\ Settle
             /\ UNCHANGED <<db, state>>
          \/ /\ c.pc = "read" /\ c.logId # NULL
             /\ StopPut(c)
             /\ Continue([c EXCEPT !.pc = "put", !.ok = handleDexieError,
                                      !.log = db'.logs[c.logId]])
          \/ /\ c.pc = "put"
             /\ state' = StopCommit(c)
             /\ Settle
             /\ UNCHANGED db
       /\ last' = Async
       /\ UNCHANGED <<storageEnabled, now, nano, budget>>

\* startTask up to the await of the read that stopTask makes
Call_startTask ==
  \E taskId \in TaskIds :
    /\ Spend
    /\ Len(calls) < MaxCalls
    /\ nano.log <= MaxLogs
    /\ \E l \in FirstRunning(db.logs) :
         calls' = Append(calls, Call("startTask", "read", taskId, l,
                                     IF l = NULL THEN NoLog ELSE db.logs[l],
                                     nano.log, {}, TRUE))
    /\ nano' = [nano EXCEPT !.log = @ + 1]
    /\ last' = Async
    /\ UNCHANGED <<db, state, storageEnabled, now>>

\* startTask once stopTask has returned, with s the store stopTask leaves
StartAdd(c, d, s) ==
  IF c.taskId \in DOMAIN s.tasks
  THEN LET log == [taskId |-> c.taskId, started |-> now, stopped |-> NULL,
                   timeSpent |-> NULL]
       IN /\ db' = [d EXCEPT !.logs = Put(@, c.newId, log)]
          /\ state' = s
          /\ Continue([c EXCEPT !.pc = "add", !.ok = handleDexieError,
                                   !.logId = c.newId, !.log = log])
  ELSE /\ db' = d
       /\ state' = s
       /\ Settle

Resume_startTask ==
  /\ calls # <<>>
  /\ LET c == Head(calls)
    IN /\ c.op = "startTask"
       /\ \/ /\ c.pc = "read" /\ c.logId = NULL
             /\ StartAdd(c, db, state)
          \/ /\ c.pc = "read" /\ c.logId # NULL
             /\ StopPut(c)
             /\ Continue([c EXCEPT !.pc = "put", !.ok = handleDexieError,
                                      !.log = db'.logs[c.logId]])
          \/ /\ c.pc = "put"
             /\ StartAdd(c, db, StopCommit(c))
          \/ /\ c.pc = "add"
             /\ state' = IF c.ok
                         THEN mutations_startTask(state,
                                [id |-> c.logId, taskId |-> c.log.taskId,
                                 started |-> c.log.started, stopped |-> c.log.stopped,
                                 timeSpent |-> c.log.timeSpent])
                         ELSE state
             /\ Settle
             /\ UNCHANGED db
       /\ last' = Async
       /\ UNCHANGED <<storageEnabled, now, nano, budget>>

\* updateTaskTimer up to the await of its read
Call_updateTaskTimer ==
  \E taskId \in TaskIds :
    /\ Spend
    /\ Len(calls) < MaxCalls
    /\ IF taskId \in DOMAIN state.tasks
       THEN \E l \in FirstRunningOf(db.logs, taskId) :
              calls' = Append(calls, Call("updateTaskTimer", "read", taskId, l,
                                          IF l = NULL THEN NoLog ELSE db.logs[l],
                                          NULL, {}, TRUE))
       ELSE calls' = calls
    /\ last' = Async
    /\ UNCHANGED <<db, state, storageEnabled, now, nano>>

Resume_updateTaskTimer ==
  /\ calls # <<>>
  /\ LET c == Head(calls)
    IN /\ c.op = "updateTaskTimer"
       /\ \/ /\ c.pc = "read" /\ c.logId = NULL
             /\ Settle
             /\ UNCHANGED <<db, state>>
          \/ /\ c.pc = "read" /\ c.logId # NULL
             /\ LET runningLog == [c.log EXCEPT !.timeSpent = now - c.log.started]
                IN /\ db' = [db EXCEPT !.logs = Put(@, c.logId, runningLog)]
                   /\ Continue([c EXCEPT !.pc = "put", !.ok = handleDexieError,
                                            !.log = runningLog])
             /\ UNCHANGED state
          \/ /\ c.pc = "put"
             /\ state' = IF c.ok
                         THEN mutations_updateLog(state, c.taskId,
                                [id |-> c.logId, taskId |-> c.log.taskId,
                                 started |-> c.log.started, stopped |-> c.log.stopped,
                                 timeSpent |-> c.log.timeSpent])
                         ELSE state
             /\ Settle
             /\ UNCHANGED db
       /\ last' = Async
       /\ UNCHANGED <<storageEnabled, now, nano, budget>>

\* deleteAllArchivedTasks up to the await of the delete of the logs
Call_deleteAllArchivedTasks ==
  LET taskIds == archivedTasks(state)
  IN /\ Spend
     /\ Len(calls) < MaxCalls
     /\ IF taskIds = {}
        THEN UNCHANGED <<db, calls>>
        ELSE /\ db' = [db EXCEPT !.logs =
                         Del(@, {l \in DOMAIN @ : db.logs[l].taskId \in taskIds})]
             /\ calls' = Append(calls, Call("deleteAllArchivedTasks", "logs", NULL, NULL,
                                            NoLog, NULL, taskIds, handleDexieError))
     /\ last' = Async
     /\ UNCHANGED <<state, storageEnabled, now, nano>>

Resume_deleteAllArchivedTasks ==
  /\ calls # <<>>
  /\ LET c == Head(calls)
    IN /\ c.op = "deleteAllArchivedTasks"
       /\ \/ /\ ~c.ok
             /\ Settle
             /\ UNCHANGED <<db, state>>
          \/ /\ c.ok /\ c.pc = "logs"
             /\ db' = [db EXCEPT !.taskTagMap =
                         RowsWithout(@, {r \in DOMAIN @ : r.taskId \in c.taskIds})]
             /\ Continue([c EXCEPT !.pc = "rows", !.ok = handleDexieError])
             /\ UNCHANGED state
          \/ /\ c.ok /\ c.pc = "rows"
             /\ db' = [db EXCEPT !.tasks = Del(@, c.taskIds)]
             /\ Continue([c EXCEPT !.pc = "tasks", !.ok = handleDexieError])
             /\ UNCHANGED state
          \/ /\ c.ok /\ c.pc = "tasks"
             /\ state' = mutations_deleteTasks(state, c.taskIds)
             /\ Settle
             /\ UNCHANGED db
       /\ last' = Async
       /\ UNCHANGED <<storageEnabled, now, nano, budget>>

\* deleteAllArchivedTasks interleaving with startTask, storage enabled
NextDangling ==
  \/ Dispatch_addTask
  \/ Dispatch_archiveTask
  \/ Call_startTask
  \/ Resume_startTask
  \/ Call_deleteAllArchivedTasks
  \/ Resume_deleteAllArchivedTasks

SpecDangling == InitUnbounded /\ [][NextDangling]_vars

\* concurrent startTask dispatches, storage enabled
NextStarts ==
  \/ Dispatch_addTask
  \/ Tick
  \/ Call_startTask
  \/ Resume_startTask

SpecStarts == InitUnbounded /\ [][NextStarts]_vars

\* stopTask and the ticks of updateTaskTimer interleaving, storage enabled
NextTicks ==
  \/ Dispatch_addTask
  \/ Dispatch_startTask
  \/ Tick
  \/ Call_stopTask
  \/ Resume_stopTask
  \/ Call_updateTaskTimer
  \/ Resume_updateTaskTimer

SpecTicks == InitUnbounded /\ [][NextTicks]_vars

RunningLogs == {l \in DOMAIN db.logs : db.logs[l].stopped = NULL}

\* C14: once the startTask dispatches that interleaved have all settled, the
\* database holds at most one log with no stop time.
C14_OneTimerAfterConcurrentStarts ==
  calls = <<>> => Cardinality(RunningLogs) <= 1

\* C15: a log of the database that has a stop time has one ever after.
C15_StoppedStaysStopped ==
  [][\A l \in DOMAIN db.logs \cap DOMAIN db'.logs :
       db.logs[l].stopped # NULL => db'.logs[l].stopped # NULL]_vars

\* the timer, each action dispatched after the previous has settled, storage
\* turning off and on, sessions of MaxSteps events
NextOneTimer ==
  \/ Reload
  \/ Dispatch_loadInitialData
  \/ SetStorageEnabled
  \/ Tick
  \/ Dispatch_addTask
  \/ Dispatch_selectTask
  \/ Dispatch_startTask
  \/ Dispatch_updateTaskTimer
  \/ Dispatch_stopTask
  \/ Dispatch_completeTask

SpecOneTimer == Init /\ [][NextOneTimer]_vars

\* C13: when each action settles before the next is dispatched the database
\* holds at most one log with no stop time, and after a startTask of a task
\* of the store that log is a log of the started task.
C13_AtMostOneTimer ==
  /\ Cardinality(RunningLogs) <= 1
  /\ (last.op = "startTask" /\ last.ok /\ last.a \in DOMAIN state.tasks)
       => \E l \in RunningLogs : db.logs[l].taskId = last.a

C13_Witness ==
  /\ last.op = "startTask" /\ last.ok /\ last.a \in DOMAIN state.tasks
  /\ \E l \in RunningLogs : db.logs[l].taskId = last.a
  /\ \E l \in DOMAIN db.logs : db.logs[l].stopped # NULL /\ db.logs[l].taskId # last.a

\* the timer and the intervals, storage enabled, sessions of MaxSteps events
NextFlags ==
  \/ Tick
  \/ Dispatch_addTask
  \/ Dispatch_selectTask
  \/ Dispatch_startTask
  \/ Dispatch_updateTaskTimer
  \/ Dispatch_stopTask
  \/ Dispatch_completeTask
  \/ Dispatch_addInterval
  \/ Dispatch_updateInterval
  \/ Dispatch_deleteInterval

SpecFlags == Init /\ [][NextFlags]_vars

\* C16: tempState.running is true exactly when the database holds a log with
\* no stop time, tempState.activeTaskID is then the task of that log, and is
\* null otherwise.
C16_TimerFlagsAgree ==
  /\ state.tempState.running <=> RunningLogs # {}
  /\ state.tempState.running
       => \A l \in RunningLogs : db.logs[l].taskId = state.tempState.activeTaskID
  /\ ~state.tempState.running => state.tempState.activeTaskID = NULL

\* the logs of the store's list as rows of the logs table
ListedLogs ==
  [i \in 1..Len(state.selectedTaskLogs) |->
     [taskId |-> state.selectedTaskLogs[i].taskId,
      started |-> state.selectedTaskLogs[i].started,
      stopped |-> state.selectedTaskLogs[i].stopped,
      timeSpent |-> state.selectedTaskLogs[i].timeSpent]]

\* C17: with storage enabled, state.selectedTaskLogs holds exactly the logs
\* of the database whose task is settings.selectedTaskID, each once and with
\* equal field values, and is empty when no task is selected.
C17_SelectedLogsMirror ==
  LET mine == {l \in DOMAIN db.logs : db.logs[l].taskId = state.settings.selectedTaskID}
  IN /\ {state.selectedTaskLogs[i].id : i \in 1..Len(state.selectedTaskLogs)} = mine
     /\ Len(state.selectedTaskLogs) = Cardinality(mine)
     /\ \A i \in 1..Len(state.selectedTaskLogs) :
          ListedLogs[i] = db.logs[state.selectedTaskLogs[i].id]
     /\ state.settings.selectedTaskID = NULL => state.selectedTaskLogs = <<>>

\* the logs of the selected task, storage enabled, sessions of MaxSteps events
NextLogs ==
  \/ Dispatch_loadInitialData
  \/ Tick
  \/ Dispatch_addTask
  \/ Dispatch_archiveTask
  \/ Dispatch_selectTask
  \/ Dispatch_startTask
  \/ Dispatch_updateTaskTimer
  \/ Dispatch_stopTask
  \/ Dispatch_addInterval
  \/ Dispatch_updateInterval
  \/ Dispatch_deleteInterval
  \/ Dispatch_deleteAllArchivedTasks

SpecLogs == Init /\ [][NextLogs]_vars

\* ---------------------------------------------------------------------
\* C18  Timer arithmetic.  Every closed log that startTask created has
\* stopped = started + timeSpent, timeSpent >= 0 and stopped >= started,
\* whether stopTask or the reconciliation of loadInitialData closed it;
\* a dispatch of updateTaskTimer leaves every stop time as it was and
\* sets timeSpent = now - started on the running log of its task.
\* (SpecTimer has no addInterval or updateInterval, so startTask creates
\* all of its logs, and its clock only advances.)
ClosedLogs == {l \in DOMAIN db.logs : db.logs[l].stopped # NULL}

ArithmeticHolds ==
  \A l \in ClosedLogs :
    /\ db.logs[l].stopped = db.logs[l].started + db.logs[l].timeSpent
    /\ db.logs[l].timeSpent >= 0
    /\ db.logs[l].stopped >= db.logs[l].started

TimerTicked ==
  LET mine == {l \in RunningLogs : db.logs[l].taskId = last'.a}
  IN /\ DOMAIN db'.logs = DOMAIN db.logs
     /\ \A l \in DOMAIN db.logs : db'.logs[l].stopped = db.logs[l].stopped
     /\ (last'.a \in DOMAIN state.tasks /\ mine # {}) =>
          \E l \in mine : db'.logs[l].timeSpent = now - db.logs[l].started

C18_TimerArithmetic ==
  [][/\ ArithmeticHolds'
     /\ (last'.op = "updateTaskTimer" /\ last'.ok) => TimerTicked]_vars

\* loadInitialData closed the only log, on which the timer had ticked, after
\* the clock moved on: the store of the only task still shows the timer
\* running, so no stopTask closed it
C18_Witness ==
  /\ last.op = "loadInitialData"
  /\ state.tempState.running
  /\ Cardinality(DOMAIN db.tasks) = 1
  /\ Cardinality(DOMAIN db.logs) = 1
  /\ \E l \in ClosedLogs : db.logs[l].timeSpent > 0 /\ db.logs[l].stopped < now

\* ---------------------------------------------------------------------
\* C19  Existence checks.  updateTaskName, updateTaskNotes, startTask,
\* updateTaskTimer, completeTask, archiveTask, addInterval,
\* addTaskTagByName and addTaskTagById, dispatched with a taskId that is
\* not in state.tasks, leave every table of the database and the whole
\* store as they were; startTask for an unknown task stops no timer.
TaskCheckedOps ==
  {"updateTaskName", "updateTaskNotes", "startTask", "updateTaskTimer",
   "completeTask", "archiveTask", "addInterval", "addTaskTagByName",
   "addTaskTagById"}

C19_UnknownTaskIsNoOp ==
  [][(last'.op \in TaskCheckedOps /\ last'.a \notin DOMAIN state.tasks)
       => NothingChanged]_vars

NextExistence ==
  \/ Tick
  \/ Dispatch_addTask
  \/ Dispatch_updateTaskName
  \/ Dispatch_updateTaskNotes
  \/ Dispatch_startTask
  \/ Dispatch_updateTaskTimer
  \/ Dispatch_stopTask
  \/ Dispatch_completeTask
  \/ Dispatch_archiveTask
  \/ Dispatch_addInterval
  \/ Dispatch_addTaskTagByName
  \/ Dispatch_addTaskTagById

SpecExistence == Init /\ [][NextExistence]_vars

\* ---------------------------------------------------------------------
\* C20  A prevented operation does not change the store.  While
\* storageEnabled is false no dispatched action alters state.tasks (the
\* order of a task included), state.tags (the order of a tag included),
\* state.tagOrder, state.taskTagsMap, state.settings (the selectedTagIds
\* array included) or state.selectedTaskLogs.  Loading the database is
\* a read and is left out.
PersistedStore(s) ==
  <<s.tasks, s.taskKeys, s.tags, s.tagOrder, s.taskTagsMap, s.settings,
    s.selectedTaskLogs>>

C20_PreventedLeavesStore ==
  [][(~storageEnabled /\ last'.op \notin {"reload", "loadInitialData"})
       => PersistedStore(state') = PersistedStore(state)]_vars

\* ---------------------------------------------------------------------
\* C21  A failed action leaves store and database in agreement.  When a
\* database operation inside an action rejects (storage is found disabled
\* at one of its guarded calls, also after earlier calls of the action
\* went through), then once the action has settled the store mirrors the
\* database for tasks, tags and tag membership: the effect of the action
\* is applied to both or to neither.
\* addTask, deleteTag and deleteAllArchivedTasks with the disk-space check
\* turning storage off and on, also between the awaits of
\* deleteAllArchivedTasks
NextFailure ==
  \/ SetStorageEnabled
  \/ Dispatch_addTask
  \/ Dispatch_archiveTask
  \/ Dispatch_addTaskTagByName
  \/ Dispatch_deleteTag
  \/ Call_deleteAllArchivedTasks
  \/ Resume_deleteAllArchivedTasks

SpecFailure == Init /\ [][NextFailure]_vars

C21_FailedActionAgrees ==
  calls = <<>> => (TasksMirror /\ TagsMirror /\ C4_TagMapAgrees)

\* ---------------------------------------------------------------------
\* C22  Initial load always populates the store.  After loadInitialData
\* the store holds every task, tag, association and setting of the
\* database, also when storage is disabled and the database has an
\* unstopped log with a non-zero timeSpent.
\* the timer, the disk-space check and the load
NextLoad ==
  \/ Reload
  \/ Dispatch_loadInitialData
  \/ SetStorageEnabled
  \/ Tick
  \/ Dispatch_addTask
  \/ Dispatch_startTask
  \/ Dispatch_updateTaskTimer

SpecLoad == Init /\ [][NextLoad]_vars

C22_LoadPopulatesStore ==
  last.op \in {"reload", "loadInitialData"} =>
    /\ TasksMirror
    /\ TagsMirror
    /\ C4_TagMapAgrees
    /\ state.settings = LoadedSettings(db.settings)

\* ---------------------------------------------------------------------
\* C23  Task order values are pairwise distinct.  addTask with a name
\* that is empty after trimming creates nothing, and otherwise gives the
\* new task an order greater than that of every task of the store; after
\* every completed addTask, reorderIncompleteTasks, completeTask,
\* archiveTask, archiveTasks and deleteAllArchivedTasks no two tasks have
\* the same order, in the store and in the database, and Object.values
\* of state.tasks lists the tasks by ascending order.
OrdersDistinct(tasks) ==
  \A t, u \in DOMAIN tasks : t # u => tasks[t].order # tasks[u].order

AscendingOrder(s) ==
  \A i, j \in 1..Len(TaskValues(s)) :
    i < j => s.tasks[TaskValues(s)[i]].order < s.tasks[TaskValues(s)[j]].order

AddedLast ==
  IF last'.a = NULL THEN NothingChanged
  ELSE /\ DOMAIN state'.tasks = DOMAIN state.tasks \cup {last'.a}
       /\ last'.a \notin DOMAIN state.tasks
       /\ \A t \in DOMAIN state.tasks :
            state'.tasks[last'.a].order > state.tasks[t].order

NextOrder ==
  \/ Dispatch_addTask
  \/ Dispatch_reorderIncompleteTasks
  \/ Dispatch_completeTask
  \/ Dispatch_archiveTask
  \/ Dispatch_archiveTasks
  \/ Dispatch_deleteAllArchivedTasks

SpecOrder == InitUnbounded /\ [][NextOrder]_vars

\* ---------------------------------------------------------------------
\* C24  reorderIncompleteTasks is a pure reordering.  For a list that is
\* a rearrangement of any subset of the incomplete tasks of the store,
\* afterwards store and database hold the task ids they held, the tasks
\* differ from before in their order only, the orders are 0..n-1 each
\* used once, every incomplete task has a smaller order than every
\* completed task, the listed tasks are in the order of the list, and an
\* incomplete task that is not listed has the place among the incomplete
\* tasks that it had.
Incomplete(s) == {t \in DOMAIN s.tasks : ~Truthy(s.tasks[t].completed)}

\* the incomplete tasks in the order Object.values(state.tasks) gives them
IncompleteTasks(s) == SeqFilter(TaskValues(s), Incomplete(s))

PureReordering(d, s, newOrder, r) ==
  LET n == Cardinality(DOMAIN s.tasks)
      after == r.state.tasks
  IN /\ DOMAIN after = DOMAIN s.tasks
     /\ DOMAIN r.db.tasks = DOMAIN d.tasks
     /\ SeqRange(TaskValues(r.state)) = DOMAIN s.tasks
     /\ Len(TaskValues(r.state)) = n
     /\ \A t \in DOMAIN s.tasks :
          /\ after[t] = [s.tasks[t] EXCEPT !.order = after[t].order]
          /\ r.db.tasks[t] = after[t]
     /\ {after[t].order : t \in DOMAIN after} = 0..(n - 1)
     /\ \A t \in Incomplete(s), u \in DOMAIN s.tasks \ Incomplete(s) :
          after[t].order < after[u].order
     /\ \A i, j \in 1..Len(newOrder) :
          i < j => after[newOrder[i]].order < after[newOrder[j]].order
     /\ \A t \in Incomplete(s) \ SeqRange(newOrder) :
          LastIndex(IncompleteTasks(r.state), t) = LastIndex(IncompleteTasks(s), t)
     /\ AscendingOrder(r.state)

ReorderTaskIds == 1..MaxReorderTasks

\* addTask while fewer than MaxReorderTasks tasks were created
Dispatch_addTask_listed ==
  \E name \in TaskNameInputs :
    /\ nano.task <= MaxReorderTasks
    /\ Dispatch(addTask(db, state, name, nano.task),
                Dispatched("addTask", IF trim(name) = <<>> THEN NULL ELSE nano.task,
                           NULL, FALSE))
    /\ nano' = IF trim(name) = <<>> THEN nano ELSE [nano EXCEPT !.task = @ + 1]

Dispatch_completeTask_listed ==
  \E taskId \in ReorderTaskIds :
    /\ Dispatch(completeTask(db, state, taskId),
                Dispatched("completeTask", taskId, NULL, FALSE))
    /\ UNCHANGED nano

\* storage enabled: a list of up to MaxReorderTasks tasks is built, tasks
\* are completed and taken up again, and lists of incomplete tasks are
\* dropped; reorderIncompleteTasks does not read the archived flag
NextReorder ==
  \/ Dispatch_addTask_listed
  \/ Dispatch_completeTask_listed
  \/ Dispatch_reorderIncompleteTasks

SpecReorder == InitUnbounded /\ [][NextReorder]_vars

====
